---- MODULE Spec2Model ----
(***************************************************************************)
(* Model of toast's noise simulation: the kernel sim_noise_timestream and  *)
(* the operator SimNoise (src/src/toast/future_ops/sim_tod_noise.py).      *)
(*                                                                         *)
(* Conventions.                                                            *)
(*  - Python integers are unbounded.  The identifiers that go into the     *)
(*    RNG key are kept as little-endian sequences of base-65536 digits     *)
(*    with no leading zero digit (the empty sequence is 0), so that        *)
(*    multiplying by 65536 and by 4294967296 is exact.                     *)
(*  - rate, freq and psd are integer valued; the comparisons the code      *)
(*    makes on rate/fftlen and rate/2 are made exactly, by cross           *)
(*    multiplication with the positive denominators.                       *)
(*  - rng.random and si.interp1d are taken to be the library routines of   *)
(*    those names (toast.rng.random, scipy.interpolate.interp1d).          *)
(*  - A drawn Gaussian value is identified by its position in the          *)
(*    keystream: (key1, key2, counter1, counter2 + index).                 *)
(***************************************************************************)
EXTENDS Integers, Sequences, FiniteSets, TLC

VARIABLES
    call,       \* per caller: the arguments of its sim_noise_timestream call
    ret,        \* per caller: NoRet before the call, then what the call did
    pc,         \* SimNoise._exec: position in the observation loop
    obsIdx,     \* SimNoise._exec: number of observations taken from data.obs
    ob,         \* SimNoise._exec: the observation being processed
    detdata,    \* ob.detdata: NoBuf, or the accumulator of every detector
    detdata0,   \* detdata as it was when the observation was taken up
    keyIdx,     \* SimNoise._exec: number of keys of nse.keys handled
    synth,      \* per key of the observation: the synthesis calls made
    store,      \* FFTPlanReal1DStore: the plans held, with who made them
    released,   \* the plans the last store.clear() dropped
    raised      \* the exception _exec has raised, or "none"

vars == <<call, ret, pc, obsIdx, ob, detdata, detdata0, keyIdx, synth, store, released, raised>>

kernelVars == <<call, ret>>
execVars == <<pc, obsIdx, ob, detdata, detdata0, keyIdx, synth, store, released, raised>>

----------------------------------------------------------------------------
(* Unbounded naturals as digit sequences *)

\* the factor of telescope in key1 (and the digit base of the model)
Limb == 65536

RECURSIVE ToBig(_)
ToBig(n) == IF n = 0 THEN <<>> ELSE <<n % Limb>> \o ToBig(n \div Limb)

\* n * 65536^k
ShiftLimbs(n, k) ==
    IF n = <<>> THEN <<>> ELSE [i \in 1..(Len(n) + k) |-> IF i <= k THEN 0 ELSE n[i - k]]

Digit(n, i) == IF i <= Len(n) THEN n[i] ELSE 0

RECURSIVE AddFrom(_, _, _, _)
AddFrom(a, b, i, carry) ==
    IF i > Len(a) /\ i > Len(b)
    THEN IF carry = 0 THEN <<>> ELSE <<carry>>
    ELSE LET s == Digit(a, i) + Digit(b, i) + carry
         IN  <<s % Limb>> \o AddFrom(a, b, i + 1, s \div Limb)

BigAdd(a, b) == AddFrom(a, b, 1, 0)

\* n * 65536
Times65536(n) == ShiftLimbs(n, 1)

\* n * 4294967296
Times4294967296(n) == ShiftLimbs(n, 2)

----------------------------------------------------------------------------
(* sim_noise_timestream, py branch *)

\* the loop with "<" for "<=": stops at a power of two equal to the target
RECURSIVE FftLenFromStrict(_, _)
FftLenFromStrict(fftlen, target) ==
    IF fftlen < target THEN FftLenFromStrict(fftlen * 2, target) ELSE fftlen

RECURSIVE FftLenFrom(_, _)
FftLenFrom(fftlen, target) ==
    IF fftlen <= target THEN FftLenFrom(fftlen * 2, target) ELSE fftlen

FftLen(oversample, samples) == FftLenFrom(2, oversample * samples)

Npsd(fftlen) == fftlen \div 2 + 1

\* np.fft.rfftfreq(fftlen, 1 / rate).size
RfftFreqSize(fftlen) == fftlen \div 2 + 1

RECURSIVE SeqMin(_)
SeqMin(s) ==
    IF Len(s) = 1 THEN s[1]
    ELSE LET m == SeqMin(Tail(s)) IN IF s[1] < m THEN s[1] ELSE m

Abs(x) == IF x < 0 THEN -x ELSE x

\* the check made on freq[0] only
FreqNegativeFirst(freq) == freq[1] < 0

\* np.amin(freq) < 0.0
FreqNegative(freq) == SeqMin(freq) < 0

\* np.amin(psd) < 0.0
PsdNegative(psd) == SeqMin(psd) < 0

\* freq[0] > increment, increment = rate / fftlen
FreqTooHigh(freq, rate, fftlen) == freq[1] * fftlen > rate

\* np.abs((freq[-1] - nyquist) / nyquist) > 0.01, nyquist = rate / 2
NyquistMismatch(freq, rate) == Abs(2 * freq[Len(freq)] - rate) * 100 > rate

\* psd[(psd > 0.0)] is empty: np.amin of it raises ValueError
NoPositivePsd(psd) == \A i \in 1..Len(psd) : ~(psd[i] > 0)

\* key1 with the realization shifted by 16 bits only
Key1Narrow(realization, telescope, component) ==
    BigAdd(BigAdd(Times65536(realization), Times65536(telescope)), component)

Key1(realization, telescope, component) ==
    BigAdd(BigAdd(Times4294967296(realization), Times65536(telescope)), component)

Key2(obsindx, detindx) == BigAdd(Times4294967296(obsindx), detindx)

Counter1 == 0

Counter2(firstsamp, oversample) == firstsamp * oversample

\* rng.random asked for npsd values only
RngCountNpsd(fftlen, npsd) == npsd

\* the number of values rng.random is asked for
RngCount(fftlen, npsd) == fftlen

\* the tail taken in forward order: stop+1, ..., start
RevRangeForward(start, stop) == [i \in 1..(start - stop) |-> stop + i]

\* Python's range(start, stop, -1) for 0 <= stop < start: start, start-1, ..., stop+1
RevRange(start, stop) == [i \in 1..(start - stop) |-> start - (i - 1)]

NoDraw == -1

\* fdata as indices into rngdata: bin b (0-based) is fdata[b + 1];
\* re and im are the rngdata indices of its parts, NoDraw for a part that is 0.0
Fdata(fftlen, npsd) ==
    LET zeros == [b \in 1..npsd |-> [re |-> NoDraw, im |-> NoDraw]]
        dc    == [zeros EXCEPT ![1] = [re |-> 0, im |-> NoDraw]]
        nyq   == [dc EXCEPT ![npsd] = [re |-> npsd - 1, im |-> NoDraw]]
        tail  == RevRange(fftlen - 1, npsd - 1)
    IN  [b \in 1..npsd |->
            IF 2 <= b /\ b <= npsd - 1
            THEN [re |-> b - 1, im |-> tail[b - 1]]
            ELSE nyq[b]]

CropOffset(fftlen, samples) == (fftlen - samples) \div 2

Raise(exc, msg, fftlen, npsd) ==
    [raised |-> exc, msg |-> msg, fftlen |-> fftlen, npsd |-> npsd,
     ndraw |-> 0, returned |-> FALSE]

SimNoiseTimestream(a) ==
    LET fftlen == FftLen(a.oversample, a.samples)
        npsd   == Npsd(fftlen)
    IN  IF RfftFreqSize(fftlen) # npsd
          THEN Raise("RuntimeError", "length", fftlen, npsd)
        ELSE IF FreqNegative(a.freq)
          THEN Raise("RuntimeError", "freq", fftlen, npsd)
        ELSE IF PsdNegative(a.psd)
          THEN Raise("RuntimeError", "psd", fftlen, npsd)
        ELSE IF FreqTooHigh(a.freq, a.rate, fftlen)
          THEN Raise("RuntimeError", "low", fftlen, npsd)
        ELSE IF NyquistMismatch(a.freq, a.rate)
          THEN Raise("RuntimeError", "nyquist", fftlen, npsd)
        ELSE IF NoPositivePsd(a.psd)
          THEN Raise("ValueError", "amin", fftlen, npsd)
        ELSE [raised   |-> "none",
              fftlen   |-> fftlen,
              npsd     |-> npsd,
              key1     |-> Key1(a.realization, a.telescope, a.component),
              key2     |-> Key2(a.obsindx, a.detindx),
              counter1 |-> Counter1,
              counter2 |-> Counter2(a.firstsamp, a.oversample),
              ndraw    |-> RngCount(fftlen, npsd),
              fdata    |-> Fdata(fftlen, npsd),
              offset   |-> CropOffset(fftlen, a.samples),
              nret     |-> a.samples,
              returned |-> TRUE]

----------------------------------------------------------------------------
(* Callers of the kernel *)

NoRet == [raised |-> "pending"]

Request(re, te, co, ob_, de, ra, fs, sa, ov, fr, ps) ==
    [realization |-> re, telescope |-> te, component |-> co, obsindx |-> ob_,
     detindx |-> de, rate |-> ra, firstsamp |-> fs, samples |-> sa,
     oversample |-> ov, freq |-> fr, psd |-> ps]

Synthesize(p) ==
    /\ ret[p] = NoRet
    /\ ret' = [ret EXCEPT ![p] = SimNoiseTimestream(call[p])]
    /\ UNCHANGED <<call, execVars>>

NextKernel == \E p \in DOMAIN call : Synthesize(p)

ExecIdle ==
    /\ pc = "idle" /\ obsIdx = 0 /\ ob = <<>> /\ detdata = <<>> /\ detdata0 = <<>>
    /\ keyIdx = 0 /\ synth = <<>> /\ store = {} /\ released = {} /\ raised = "none"

----------------------------------------------------------------------------
(* Bounded inputs of the kernel *)

FftMaxSamples == 1024
FftMaxOversample == 2
SynMaxFirst == 4
SynMaxSamples == 4
SynMaxOversample == 2
PreMaxSamples == 3
PreMaxOversample == 2

Zero == ToBig(0)
FlatFreq == <<0, 100>>
FlatPsd == <<1, 1>>
Rates == {200}

\* one caller; samples and oversample vary
FftRequests ==
    { Request(Zero, Zero, Zero, Zero, Zero, ra, 0, n, f, FlatFreq, FlatPsd) :
        ra \in Rates, n \in 1..FftMaxSamples, f \in 1..FftMaxOversample }

InitFft ==
    /\ call \in [{1} -> FftRequests]
    /\ ret = [p \in {1} |-> NoRet]
    /\ ExecIdle

SpecFft == InitFft /\ [][NextKernel]_vars

\* two callers; the identifiers vary, below, at and above the width of their field
RealizationIds == {ToBig(0), ToBig(1)}
TelescopeIds == {ToBig(0), ToBig(1), ToBig(65536)}
ComponentIds == {ToBig(0), ToBig(65535), ToBig(65536)}
ObsIds == {ToBig(0), ToBig(1)}
DetIds == {ToBig(0), <<65535, 65535>>, <<0, 0, 1>>}

KeyRequests ==
    { Request(re, te, co, o, de, ra, 0, 1, 1, FlatFreq, FlatPsd) :
        ra \in Rates, re \in RealizationIds, te \in TelescopeIds, co \in ComponentIds,
        o \in ObsIds, de \in DetIds }

InitKey ==
    /\ call \in [{1, 2} -> KeyRequests]
    /\ ret = [p \in {1, 2} |-> NoRet]
    /\ ExecIdle

SpecKey == InitKey /\ [][NextKernel]_vars

\* two callers; the sample range, the oversampling and the detector vary
SynRequests ==
    { Request(Zero, Zero, Zero, Zero, de, ra, fs, n, f, FlatFreq, FlatPsd) :
        ra \in Rates, de \in {ToBig(0), ToBig(1)}, fs \in 0..SynMaxFirst,
        n \in 1..SynMaxSamples, f \in 1..SynMaxOversample }

InitSynth ==
    /\ call \in [{1, 2} -> SynRequests]
    /\ ret = [p \in {1, 2} |-> NoRet]
    /\ ExecIdle

SpecSynth == InitSynth /\ [][NextKernel]_vars

\* one caller; the PSD table varies around every precondition
PreFreqs ==
    { <<lo, mid, hi>> : lo \in {-1, 0, 25, 26, 50, 51, 100, 101},
                        mid \in {-1, 60}, hi \in {98, 99, 101, 102} }
PrePsds == [1..3 -> {-1, 0, 1}]

PreRequests ==
    { Request(Zero, Zero, Zero, Zero, Zero, ra, 0, n, f, fr, ps) :
        ra \in Rates, n \in 1..PreMaxSamples, f \in 1..PreMaxOversample,
        fr \in PreFreqs, ps \in PrePsds }

InitPrecond ==
    /\ call \in [{1} -> PreRequests]
    /\ ret = [p \in {1} |-> NoRet]
    /\ ExecIdle

SpecPrecond == InitPrecond /\ [][NextKernel]_vars

----------------------------------------------------------------------------
(* Claims about the kernel *)

Called(p) == p \in DOMAIN call /\ ret[p] # NoRet
Ok(p) == Called(p) /\ ret[p].raised = "none"

RECURSIVE IsPowerOfTwo(_)
IsPowerOfTwo(n) == n = 1 \/ (n > 1 /\ n % 2 = 0 /\ IsPowerOfTwo(n \div 2))

\* C1 as stated: fft_len is the smallest power of two >= oversample * samples
\* (samples = 1024, oversample = 2 gives 2048 and npsd 1025).
C1_SmallestPowerAtLeast ==
    \A p \in DOMAIN call : Called(p) =>
        LET x == call[p].oversample * call[p].samples
            n == ret[p].fftlen
        IN  /\ IsPowerOfTwo(n)
            /\ n >= x
            /\ (n > 1 => n \div 2 < x)
            /\ ret[p].npsd = n \div 2 + 1
            /\ (call[p].samples = 1024 /\ call[p].oversample = 2
                    => n = 2048 /\ ret[p].npsd = 1025)

\* C1 amended: fft_len is the smallest power of two strictly greater than
\* oversample * samples, and npsd = fft_len/2 + 1
\* (samples = 1024, oversample = 2 gives 4096 and npsd 2049).
C1_SmallestPowerAbove ==
    \A p \in DOMAIN call : Called(p) =>
        LET x == call[p].oversample * call[p].samples
            n == ret[p].fftlen
        IN  /\ IsPowerOfTwo(n)
            /\ n > x
            /\ n \div 2 <= x
            /\ ret[p].npsd = n \div 2 + 1
            /\ (call[p].samples = 1024 /\ call[p].oversample = 2
                    => n = 4096 /\ ret[p].npsd = 2049)

C1_Witness ==
    \E p \in DOMAIN call :
        /\ Called(p)
        /\ call[p].samples = 1024 /\ call[p].oversample = 2
        /\ ret[p].fftlen = 4096

Ids(a) == <<a.realization, a.telescope, a.component, a.obsindx, a.detindx>>
Keys(r) == <<r.key1, r.key2>>

\* n < 65536^k
Below(n, k) == Len(n) <= k

\* C2 as stated: two requests whose identifier tuples differ in any field
\* have different keys (key1, key2).
C2_DistinctIdsDistinctKeys ==
    \A p, q \in DOMAIN call :
        (Ok(p) /\ Ok(q) /\ Ids(call[p]) # Ids(call[q])) => Keys(ret[p]) # Keys(ret[q])

IdsInWidth(a) ==
    /\ Below(a.realization, 2) /\ Below(a.telescope, 1) /\ Below(a.component, 1)
    /\ Below(a.obsindx, 2) /\ Below(a.detindx, 2)

\* C2 amended: when every identifier fits the width of its field in the key
\* (telescope and component below 2^16, realization, observation id and
\* detector id below 2^32, none negative), two requests whose identifier
\* tuples differ have different keys, hence share no (key, counter) value.
C2_InWidthDistinctKeys ==
    \A p, q \in DOMAIN call :
        (/\ Ok(p) /\ Ok(q)
         /\ IdsInWidth(call[p]) /\ IdsInWidth(call[q])
         /\ Ids(call[p]) # Ids(call[q]))
        => Keys(ret[p]) # Keys(ret[q])

C2_Witness ==
    /\ Ok(1) /\ Ok(2)
    /\ IdsInWidth(call[1]) /\ IdsInWidth(call[2])
    /\ call[1].telescope = ToBig(1) /\ call[1].component = ToBig(0)
    /\ call[2].telescope = ToBig(0) /\ call[2].component = ToBig(65535)
    /\ call[1].detindx = <<65535, 65535>> /\ call[2].detindx = <<65535, 65535>>
    /\ Keys(ret[1]) # Keys(ret[2])

\* the counters of the values one call draws: rng.random advances counter2
\* by one per value
DrawnCounters(r) == { r.counter2 + m : m \in 0..(r.ndraw - 1) }

SameStream(p, q) ==
    /\ Ids(call[p]) = Ids(call[q])
    /\ call[p].oversample = call[q].oversample

\* the sample range of p ends where or before the range of q starts
Before(p, q) == call[p].firstsamp + call[p].samples <= call[q].firstsamp

\* C3 as stated: two requests with the same key and oversample factor over
\* non-overlapping sample ranges draw no counter in common.
C3_DisjointRangesDisjointCounters ==
    \A p, q \in DOMAIN call :
        (Ok(p) /\ Ok(q) /\ SameStream(p, q) /\ Before(p, q))
        => DrawnCounters(ret[p]) \cap DrawnCounters(ret[q]) = {}

\* What the code does for such a pair: each request draws fft_len consecutive
\* counters from first_sample_offset * oversample, so the two share no counter
\* exactly when b * oversample >= a * oversample + fft_len of the first
\* request; adjacent ranges (b = a+n) always share counters.
C3_DisjointIffGap ==
    \A p, q \in DOMAIN call :
        (Ok(p) /\ Ok(q) /\ SameStream(p, q) /\ Before(p, q))
        => /\ (DrawnCounters(ret[p]) \cap DrawnCounters(ret[q]) = {})
                <=> (call[q].firstsamp * call[q].oversample
                        >= call[p].firstsamp * call[p].oversample + ret[p].fftlen)
           /\ (call[q].firstsamp = call[p].firstsamp + call[p].samples
                => DrawnCounters(ret[p]) \cap DrawnCounters(ret[q]) # {})

C3_GapReached ==
    /\ Ok(1) /\ Ok(2) /\ SameStream(1, 2) /\ Before(1, 2)
    /\ call[1].oversample = 2 /\ call[1].firstsamp = 1 /\ call[1].samples = 1
    /\ call[2].firstsamp = 3
    /\ DrawnCounters(ret[1]) \cap DrawnCounters(ret[2]) = {}

\* where the spectrum of a call comes from: every part of every bin that is
\* a drawn value, with the key and counter of that value
SpectrumSources(r) ==
    LET at(m) == <<r.key1, r.key2, r.counter1, r.counter2 + m>>
    IN  { <<at(r.fdata[b].re), b - 1, "re">> : b \in 1..r.npsd }
        \cup { <<at(r.fdata[b].im), b - 1, "im">> :
                    b \in { c \in 1..r.npsd : r.fdata[c].im # NoDraw } }

SameButRange(a, b) ==
    /\ Ids(a) = Ids(b) /\ a.rate = b.rate /\ a.oversample = b.oversample
    /\ a.freq = b.freq /\ a.psd = b.psd

\* q asks for [0, k) or [k, N) of the range [0, N) that p asks for, 0 < k < N
ChunkOf(q, p) ==
    /\ SameButRange(call[q], call[p])
    /\ call[p].firstsamp = 0
    /\ call[q].samples < call[p].samples
    /\ \/ call[q].firstsamp = 0
       \/ call[q].firstsamp + call[q].samples = call[p].samples

\* C4 as stated: the requests for [0, k) and for [k, N) are built from the
\* same keystream values, in the same roles, as the request for [0, N).
C4_ChunkConsistency ==
    \A p, q \in DOMAIN call :
        (Ok(p) /\ Ok(q) /\ ChunkOf(q, p))
        => SpectrumSources(ret[q]) = SpectrumSources(ret[p])

\* the rngdata indices the spectrum reads, one entry per part read
UsedDraws(r) ==
    { <<b, "re", r.fdata[b].re>> : b \in 1..r.npsd }
    \cup { <<b, "im", r.fdata[b].im>> : b \in { c \in 1..r.npsd : r.fdata[c].im # NoDraw } }

\* C5 as stated: one request draws exactly npsd values, at consecutive
\* counters from first_sample_offset * oversample with counter_hi = 0, and
\* builds the npsd bins from exactly those draws.
C5_DrawsNpsd ==
    \A p \in DOMAIN call : Ok(p) =>
        /\ ret[p].ndraw = ret[p].npsd
        /\ ret[p].counter1 = 0
        /\ ret[p].counter2 = call[p].firstsamp * call[p].oversample
        /\ Len(ret[p].fdata) = ret[p].npsd
        /\ { u[3] : u \in UsedDraws(ret[p]) } = 0..(ret[p].ndraw - 1)

\* C5 amended: one request draws exactly fft_len = 2 * (npsd - 1) values, at
\* consecutive counters from first_sample_offset * oversample with
\* counter_hi = 0, and builds the npsd bins from exactly those draws, each
\* used once.
C5_DrawsFftLen ==
    \A p \in DOMAIN call : Ok(p) =>
        /\ ret[p].ndraw = ret[p].fftlen
        /\ ret[p].ndraw = 2 * (ret[p].npsd - 1)
        /\ ret[p].counter1 = 0
        /\ ret[p].counter2 = call[p].firstsamp * call[p].oversample
        /\ DrawnCounters(ret[p]) =
              (call[p].firstsamp * call[p].oversample) ..
              (call[p].firstsamp * call[p].oversample + ret[p].fftlen - 1)
        /\ Len(ret[p].fdata) = ret[p].npsd
        /\ { u[3] : u \in UsedDraws(ret[p]) } = 0..(ret[p].ndraw - 1)
        /\ Cardinality(UsedDraws(ret[p])) = ret[p].ndraw

C5_Witness ==
    \E p \in DOMAIN call :
        /\ Ok(p)
        /\ call[p].firstsamp = 3 /\ call[p].samples = 3 /\ call[p].oversample = 2
        /\ ret[p].ndraw = 8 /\ ret[p].npsd = 5 /\ ret[p].counter2 = 6

\* C11: in the spectrum of length npsd, bin 0 and bin npsd-1 have zero
\* imaginary part and real parts draw[0] and draw[npsd-1]; each interior bin
\* i (1 <= i <= npsd-2) has real part draw[i] and imaginary part
\* draw[fft_len - i], the tail of the drawn sequence in reverse order; every
\* index read lies within the drawn sequence and no drawn value is used in
\* more than one real or imaginary slot.
C11_SpectrumPacking ==
    \A p \in DOMAIN call : Ok(p) =>
        LET r == ret[p]
            bin(i) == r.fdata[i + 1]
            slots == { <<i, "re">> : i \in 0..(r.npsd - 1) }
                     \cup { <<i, "im">> : i \in 1..(r.npsd - 2) }
            read(s) == IF s[2] = "re" THEN bin(s[1]).re ELSE bin(s[1]).im
        IN  /\ Len(r.fdata) = r.npsd
            /\ bin(0) = [re |-> 0, im |-> NoDraw]
            /\ bin(r.npsd - 1) = [re |-> r.npsd - 1, im |-> NoDraw]
            /\ \A i \in 1..(r.npsd - 2) : bin(i) = [re |-> i, im |-> r.fftlen - i]
            /\ \A s \in slots : read(s) \in 0..(r.ndraw - 1)
            /\ \A s, t \in slots : s # t => read(s) # read(t)

C11_Witness ==
    \E p \in DOMAIN call :
        /\ Ok(p)
        /\ ret[p].fftlen = 16 /\ ret[p].npsd = 9 /\ ret[p].ndraw = 16
        /\ ret[p].fdata[2] = [re |-> 1, im |-> 15]
        /\ ret[p].fdata[8] = [re |-> 7, im |-> 9]
        /\ ret[p].fdata[9] = [re |-> 8, im |-> NoDraw]

\* C6: a call whose PSD table has a negative frequency, a negative PSD value,
\* freq[0] > rate/fft_len, or a last frequency more than 1% off rate/2 raises
\* before any value is drawn and returns nothing; a call whose table meets
\* all four conditions raises none of the precondition errors.
C6_PreconditionRejection ==
    \A p \in DOMAIN call : Called(p) =>
        LET a == call[p]
            last == a.freq[Len(a.freq)]
            off == IF 2 * last >= a.rate THEN 2 * last - a.rate ELSE a.rate - 2 * last
            bad == \/ \E i \in 1..Len(a.freq) : a.freq[i] < 0
                   \/ \E i \in 1..Len(a.psd) : a.psd[i] < 0
                   \/ a.freq[1] * ret[p].fftlen > a.rate
                   \/ 100 * off > a.rate
        IN  /\ bad => /\ ret[p].raised \in {"RuntimeError", "ValueError"}
                      /\ ret[p].ndraw = 0
                      /\ ~ret[p].returned
            /\ ~bad => ret[p].raised # "RuntimeError"

C6_Witness ==
    \E p \in DOMAIN call :
        /\ Called(p)
        /\ call[p].freq = <<0, -1, 101>>
        /\ call[p].psd = <<1, 0, 1>>
        /\ ret[p].raised = "RuntimeError" /\ ret[p].ndraw = 0

C6_WitnessAccepted ==
    \E p \in DOMAIN call :
        /\ Called(p)
        /\ call[p].freq = <<25, 60, 99>> /\ call[p].samples = 3 /\ call[p].oversample = 2
        /\ call[p].psd = <<0, 0, 1>>
        /\ ret[p].raised = "none" /\ ret[p].returned

----------------------------------------------------------------------------
(* SimNoise._exec *)

\* self._oversample
Oversample == 2

\* the local detectors of an observation, and the keys of its noise model
LocalDets == {1, 2}
NseKeys == <<"a", "b">>

\* nse.index(key)
NseIndex(key) == IF key = "a" THEN ToBig(0) ELSE ToBig(1)

NoBuf == <<>>

Zeros(n) == [j \in 1..n |-> 0]

VecAdd(x, y) == [j \in 1..Len(x) |-> x[j] + y[j]]
VecScale(c, x) == [j \in 1..Len(x) |-> c * x[j]]

\* ob.detdata.create(self.out, detshape=(), dtype=np.float64)
CreateDetdata(o) == [d \in LocalDets |-> Zeros(o.n_local_samples)]

\* the output created before the two checks
ExecPrologueCreateFirst(o, buf) ==
    LET made == IF buf = NoBuf THEN CreateDetdata(o) ELSE buf
    IN  IF ~o.has_noise_model
          THEN [raised |-> "KeyError", detdata |-> made]
        ELSE IF o.comm_row_size # 1
          THEN [raised |-> "NotImplementedError", detdata |-> made]
        ELSE [raised |-> "none", detdata |-> made]

\* lines 259-279: the two checks, then the output is created if absent
ExecPrologue(o, buf) ==
    IF ~o.has_noise_model
      THEN [raised |-> "KeyError", detdata |-> buf]
    ELSE IF o.comm_row_size # 1
      THEN [raised |-> "NotImplementedError", detdata |-> buf]
    ELSE [raised |-> "none",
          detdata |-> IF buf = NoBuf THEN CreateDetdata(o) ELSE buf]

RECURSIVE SumOver(_, _)
SumOver(w, ds) ==
    IF ds = {} THEN 0
    ELSE LET d == CHOOSE x \in ds : TRUE
         IN  w[d] + SumOver(w, ds \ {d})

\* the weights summed without np.abs
KeyWeightSigned(w, dets) == SumOver(w, dets)

RECURSIVE SumAbsOver(_, _)
SumAbsOver(w, ds) ==
    IF ds = {} THEN 0
    ELSE LET d == CHOOSE x \in ds : TRUE
         IN  Abs(w[d]) + SumAbsOver(w, ds \ {d})

\* lines 287-289: weight += np.abs(nse.weight(det, key)) over dets
KeyWeight(w, dets) == SumAbsOver(w, dets)

\* "=" for "+="
AccumulateAssign(acc, weight, nsedata) == VecScale(weight, nsedata)

\* line 313: ob.detdata[self.out][det] += weight * nsedata
Accumulate(acc, weight, nsedata) == VecAdd(acc, VecScale(weight, nsedata))

\* lines 309-313: every detector of dets with a nonzero weight accumulates
AddNoise(buf, w, dets, nsedata) ==
    [d \in LocalDets |->
        IF d \in dets /\ w[d] # 0 THEN Accumulate(buf[d], w[d], nsedata) ELSE buf[d]]

\* lines 294-306: the request _exec builds for a key
ExecRequest(o, key, table) ==
    Request(o.realization, o.telescope, o.component, o.UID, NseIndex(key), o.rate,
            o.local_index_offset + o.global_offset, o.n_local_samples, Oversample,
            table.freq, table.psd)

\* the plan store keeps one plan per transform length, made on first use
StorePlan(s, fftlen, maker) ==
    IF \E e \in s : e.len = fftlen THEN s ELSE s \cup {[len |-> fftlen, by |-> maker]}

\* the store left as it is
StoreClearNothing(s) == s

\* store.clear()
StoreClear(s) == {}

AfterKey(k) == IF k = Len(NseKeys) THEN "clear" ELSE "keys"

\* the model follows the buffers of the observation in progress only
Forget ==
    /\ ob' = <<>> /\ detdata' = NoBuf /\ detdata0' = NoBuf
    /\ keyIdx' = 0 /\ synth' = <<>>

\* for ob in data.obs: ... up to the loop over nse.keys (lines 238-283)
TakeObservation(o) ==
    /\ pc = "loop"
    /\ o.UID = ToBig(obsIdx + 1)
    /\ obsIdx' = obsIdx + 1
    /\ IF o.dets = {}
         THEN /\ pc' = "loop"
              /\ raised' = raised
              /\ Forget
         ELSE LET pro == ExecPrologue(o, o.detdata)
              IN  /\ ob' = o
                  /\ detdata0' = o.detdata
                  /\ keyIdx' = 0
                  /\ synth' = <<>>
                  /\ detdata' = pro.detdata
                  /\ raised' = pro.raised
                  /\ pc' = IF pro.raised # "none" THEN "raised" ELSE AfterKey(0)
    /\ UNCHANGED <<store, released, kernelVars>>

\* one pass of the loop over nse.keys (lines 285-313); w is what nse.weight
\* answers for this key, table what nse.freq and nse.psd answer, nsedata the
\* values of the timestream the synthesis returns
HandleKey(w, table, nsedata) ==
    /\ pc = "keys"
    /\ LET key == NseKeys[keyIdx + 1]
       IN  IF KeyWeight(w, ob.dets) = 0
             THEN /\ synth' = Append(synth, [key |-> key, w |-> w, calls |-> 0])
                  /\ keyIdx' = keyIdx + 1
                  /\ pc' = AfterKey(keyIdx + 1)
                  /\ UNCHANGED <<detdata, store, raised>>
             ELSE LET req == ExecRequest(ob, key, table)
                      r   == SimNoiseTimestream(req)
                  IN  IF r.raised # "none"
                        THEN /\ synth' = Append(synth,
                                    [key |-> key, w |-> w, calls |-> 1, req |-> req,
                                     failed |-> TRUE])
                             /\ raised' = r.raised
                             /\ pc' = "raised"
                             /\ UNCHANGED <<keyIdx, detdata, store>>
                        ELSE /\ synth' = Append(synth,
                                    [key |-> key, w |-> w, calls |-> 1, req |-> req,
                                     failed |-> FALSE, nsedata |-> nsedata])
                             /\ store' = StorePlan(store, r.fftlen, obsIdx)
                             /\ detdata' = AddNoise(detdata, w, ob.dets, nsedata)
                             /\ keyIdx' = keyIdx + 1
                             /\ pc' = AfterKey(keyIdx + 1)
                             /\ raised' = raised
    /\ UNCHANGED <<obsIdx, ob, detdata0, released, kernelVars>>

Weights == {-1, 0, 1}

\* the tables a noise model may hold: a valid one and one with a negative PSD value
Tables == { [freq |-> <<0, 100>>, psd |-> <<1, 1>>], [freq |-> <<0, 100>>, psd |-> <<1, -1>>] }

\* the timestreams a synthesis may return, of the length asked for
Timestreams(n) == { [j \in 1..n |-> base + j] : base \in {0, 3} }

KeyLoop ==
    /\ pc = "keys"
    /\ \E w \in [ob.dets -> Weights], table \in Tables,
          nsedata \in Timestreams(ob.n_local_samples) : HandleKey(w, table, nsedata)

\* lines 327-328, then on to the next observation
ClearStore ==
    /\ pc = "clear"
    /\ store' = StoreClear(store)
    /\ released' = store \ store'
    /\ pc' = "loop"
    /\ Forget
    /\ UNCHANGED <<obsIdx, raised, kernelVars>>

ExecMaxObs == 2
ExecMaxSamples == 2

\* line 329
Return ==
    /\ pc = "loop"
    /\ obsIdx = ExecMaxObs
    /\ pc' = "done"
    /\ UNCHANGED <<obsIdx, ob, detdata, detdata0, keyIdx, synth, store, released, raised, kernelVars>>

PriorBuffers(n) ==
    {NoBuf} \cup { [d \in LocalDets |-> [j \in 1..n |-> v[d]]] : v \in [LocalDets -> {0, 5}] }

\* data.obs: what an observation holds when _exec takes it up
Observations ==
    UNION { { [UID |-> u, dets |-> ds, has_noise_model |-> hm, comm_row_size |-> cr,
               detdata |-> buf, n_local_samples |-> n, local_index_offset |-> 0,
               global_offset |-> go, rate |-> ra, telescope |-> ToBig(1),
               realization |-> Zero, component |-> Zero] :
                u \in {ToBig(i) : i \in 1..ExecMaxObs}, ds \in SUBSET LocalDets,
                hm \in BOOLEAN, cr \in {1, 2}, buf \in PriorBuffers(n),
                go \in {0, 3}, ra \in Rates } : n \in 1..ExecMaxSamples }

\* plans left in the store by earlier work of the process (maker 0)
InitStores == { {}, {[len |-> 8, by |-> 0]} }

Init ==
    /\ call = <<>> /\ ret = <<>>
    /\ pc = "loop" /\ obsIdx = 0 /\ ob = <<>> /\ detdata = NoBuf /\ detdata0 = NoBuf
    /\ keyIdx = 0 /\ synth = <<>> /\ raised = "none"
    /\ store \in InitStores /\ released = {}

Next ==
    \/ \E o \in Observations : TakeObservation(o)
    \/ KeyLoop
    \/ ClearStore
    \/ Return

Spec == Init /\ [][Next]_vars

----------------------------------------------------------------------------
(* Claims about SimNoise._exec *)

InObservation == pc \in {"keys", "clear", "raised"}

\* the accumulator of detector d when the observation was taken up: zero if
\* the output did not exist
Base(d) == IF detdata0 = NoBuf THEN Zeros(ob.n_local_samples) ELSE detdata0[d]

Synthesized(e) == e.calls = 1 /\ ~e.failed

\* weight(d, key) * timestream(key), summed over the keys of a log
RECURSIVE Total(_, _)
Total(log, d) ==
    IF log = <<>> THEN Zeros(ob.n_local_samples)
    ELSE LET e == log[Len(log)]
             rest == Total(SubSeq(log, 1, Len(log) - 1), d)
         IN  IF d \in ob.dets /\ Synthesized(e)
             THEN VecAdd(rest, VecScale(e.w[d], e.nsedata))
             ELSE rest

\* C7 as stated: when _exec raises while processing an observation, the
\* output buffer has not been created and no accumulator has changed since
\* the observation was taken up.
C7_NothingDoneAtError == pc = "raised" => detdata = detdata0

\* C7 amended: when _exec raises KeyError or NotImplementedError the output
\* buffer has not been created and no accumulator has changed; when the
\* synthesis of a key raises, the output buffer exists and every accumulator
\* holds its starting value (zero if the buffer was created by this call)
\* plus the contributions of the keys handled before the failing key.
C7_AbandonedAtError ==
    pc = "raised" =>
        IF raised \in {"KeyError", "NotImplementedError"}
        THEN detdata = detdata0 /\ synth = <<>>
        ELSE /\ synth # <<>> /\ synth[Len(synth)].calls = 1 /\ synth[Len(synth)].failed
             /\ Len(synth) = keyIdx + 1
             /\ detdata # NoBuf
             /\ \A d \in LocalDets : detdata[d] = VecAdd(Base(d), Total(synth, d))

C7_Witness ==
    /\ pc = "raised" /\ raised = "RuntimeError"
    /\ detdata0 = NoBuf
    /\ Len(synth) = 2 /\ Synthesized(synth[1])
    /\ 1 \in ob.dets /\ synth[1].w[1] = -1
    /\ detdata[1] # Zeros(ob.n_local_samples)

\* C8: once the observation's keys are handled without error, every active
\* detector's accumulator equals its value before the observation (zero if
\* the buffer was created by this call) plus the sum over all keys of
\* weight(D, key) * timestream(key), one timestream per key; the same holds
\* of the keys handled so far while the loop runs.
C8_Accumulation ==
    pc \in {"keys", "clear"} =>
        /\ Len(synth) = keyIdx
        /\ pc = "clear" => keyIdx = Len(NseKeys)
        /\ \A i \in 1..Len(synth) : \A d \in ob.dets :
                synth[i].w[d] # 0 => Synthesized(synth[i])
        /\ \A d \in ob.dets : detdata[d] = VecAdd(Base(d), Total(synth, d))

C8_Witness ==
    /\ pc = "clear"
    /\ ob.dets = {1, 2}
    /\ detdata0 # NoBuf /\ detdata0[1] = <<5, 5>>
    /\ Synthesized(synth[1]) /\ Synthesized(synth[2])
    /\ synth[1].w[1] = 1 /\ synth[2].w[1] = -1 /\ synth[2].w[2] = 0
    /\ synth[1].nsedata = <<1, 2>> /\ synth[2].nsedata = <<4, 5>>
    /\ detdata[1] = <<2, 2>>

\* C9: for every key the loop has handled, the synthesizer was invoked zero
\* times if the key's weight is zero for every active detector and exactly
\* once, not once per detector, otherwise.
C9_SkipZeroWeight ==
    InObservation =>
        \A i \in 1..Len(synth) :
            LET uncoupled == \A d \in ob.dets : synth[i].w[d] = 0
            IN  synth[i].calls = IF uncoupled THEN 0 ELSE 1

C9_Witness ==
    /\ pc = "clear"
    /\ ob.dets = {1, 2}
    /\ synth[1].w[1] = 1 /\ synth[1].w[2] = -1 /\ synth[1].calls = 1
    /\ synth[2].w[1] = 0 /\ synth[2].w[2] = 0 /\ synth[2].calls = 0

\* C10: when _exec is about to take the next observation, and when it has
\* returned, the plan store holds no plan made during an earlier observation;
\* during an observation it holds none made during an earlier one.
C10_NoPlanSurvives ==
    /\ pc \in {"loop", "done"} => \A e \in store : e.by = 0
    /\ InObservation => \A e \in store : e.by \in {0, obsIdx}

C10_Witness ==
    /\ pc = "clear" /\ obsIdx = 2
    /\ \E e \in released : e.by = 1
    /\ store # {} /\ \A e \in store : e.by = 2

====
